---- MODULE Spec2Model ----
(***************************************************************************)
(* Notion-to-Jira transfer: the two reconciliation algorithms.             *)
(*                                                                         *)
(*  - data_script.py: HierarchicalDataParser.reorganize_epic_tasks (the    *)
(*    two-pass, name-addressed tree reconciler) followed by                *)
(*    JiraIntegrator.create_epic / create_task_hierarchy.  Specification   *)
(*    Spec.                                                                *)
(*  - transfer_script.py: resolve_nested_tasks (the identifier-addressed   *)
(*    graph flattener) followed by map_notion_to_jira_fields and           *)
(*    JiraIntegrator.create_epic / create_task_hierarchy.  Specification   *)
(*    SpecFlatten.  SpecAll has the runs of both programs.                 *)
(*  - the pure functions of data_script.py and transfer_script.py on       *)
(*    their own inputs: normalize_task_name (SpecNormalize),               *)
(*    process_child_tasks (SpecExtract), process_task_status (SpecStatus)  *)
(*    and the title of a fetched page (SpecTitle).                         *)
(*                                                                         *)
(* Python dictionaries are modelled as sequences of entries in insertion   *)
(* order; Python objects (items, records) are modelled by their index, so  *)
(* that storing an object in a container stores a reference to it.         *)
(* Strings that the code inspects character by character (summaries and    *)
(* reference labels) are sequences of one-character strings.               *)
(***************************************************************************)
EXTENDS Integers, Sequences, FiniteSets, TLC

VARIABLES
    pc,            \* position of the data_script pipeline
    items,         \* epic['items'] as read: sequence of item objects
    child_items,   \* child_items[i]: the child_items dict of item object i
    refs0,         \* child_items of every item as read (never changes)
    stories,       \* list `stories` (item objects, by index)
    tasks,         \* list `tasks`
    task_map,      \* dict normalized summary -> item object
    tcursor,       \* position of the pass-1 loop in `tasks`
    scursor,       \* position of the pass-2 loop in `stories`
    unmatched,     \* history: the (parent, reference) pairs whose lookup missed
    epic_items,    \* epic['items'] after reorganize_epic_tasks
    calls,         \* calls made to the issue tracker, in order
    hcursor,       \* position of create_task_hierarchy in epic['items']
    fpc,           \* position of resolve_nested_tasks
    pool,          \* data['tasks'] as fetched: insertion order of the ids
    sub_ids,       \* sub_tasks (list of ids) of every fetched record
    slot,          \* which object data['tasks'][id] holds: "orig" or "copy"
    copy_subs,     \* sub_tasks of the copy of every record
    fcursor,       \* position of the second pass in the snapshot of the pool
    new_tasks,     \* dict new_tasks (ids in insertion order)
    processed_task_ids,
    result_tasks,  \* resolved_data['tasks'] of the returned dictionary
    npc,           \* normalize_task_name: position
    nname,         \* its argument
    nonce,         \* normalize_task_name(name)
    ntwice,        \* normalize_task_name(normalize_task_name(name))
    epc,           \* process_child_tasks: position
    elinks,        \* the links the raw reference text was written from
    etext,         \* the raw reference text
    eresult,       \* the dict process_child_tasks returns
    spc,           \* process_task_status: position
    smapping,      \* the content of status.json
    sraw,          \* the Status column of the row
    sstatus,       \* the status read_csv stores
    tpc,           \* title of a fetched page: position
    tlevel,        \* the page is the epic, a task or a sub-task
    ttitle,        \* the title property of the page (list of text contents)
    tfetched,      \* the value fetch_detailed_data stores for it
    tsummary,      \* the summary map_notion_to_jira_fields gives the issue
    jira_tasks,    \* jira_mapping['tasks'] of map_notion_to_jira_fields
    tcalls,        \* create calls made by transfer_script's JiraIntegrator
    jcursor        \* position of its create_task_hierarchy in jira_tasks

dvars == <<pc, items, child_items, refs0, stories, tasks, task_map, tcursor,
           scursor, unmatched, epic_items, calls, hcursor>>
fvars == <<fpc, pool, sub_ids, slot, copy_subs, fcursor, new_tasks,
           processed_task_ids, result_tasks>>
nvars == <<npc, nname, nonce, ntwice>>
evars == <<epc, elinks, etext, eresult>>
svars == <<spc, smapping, sraw, sstatus>>
tvars == <<tpc, tlevel, ttitle, tfetched, tsummary>>
jvars == <<jira_tasks, tcalls, jcursor>>
xvars == <<nvars, evars, svars, tvars, jvars>>
vars == <<dvars, fvars, xvars>>

\* the value None of Python
None == [isNone |-> TRUE, text |-> ""]

Some(x) == [isNone |-> FALSE, text |-> x]

NormalizeIdle == npc = "idle" /\ nname = <<>> /\ nonce = <<>> /\ ntwice = <<>>

ExtractIdle == epc = "idle" /\ elinks = <<>> /\ etext = <<>> /\ eresult = <<>>

StatusIdle == spc = "idle" /\ smapping = <<>> /\ sraw = "" /\ sstatus = None

TitleIdle ==
    /\ tpc = "idle" /\ tlevel = "" /\ ttitle = <<>> /\ tfetched = None
    /\ tsummary = None

MappingIdle == jira_tasks = <<>> /\ tcalls = <<>> /\ jcursor = 0

OthersIdle == NormalizeIdle /\ ExtractIdle /\ StatusIdle /\ TitleIdle /\ MappingIdle

---------------------------------------------------------------------------
(* Bounds of the model *)
MaxItems == 3        \* rows read into one epic
MaxRefs == 3         \* references in one epic's rows, all rows together

---------------------------------------------------------------------------
(* Strings *)

RemoveColons(s) == SelectSeq(s, LAMBDA c : c # ":")

\* the characters str.strip() and str.lstrip() remove when given no argument
Whitespace == {" ", "\t", "\n"}

RECURSIVE LStripChars(_, _)
LStripChars(s, chars) ==
    IF s # <<>> /\ Head(s) \in chars THEN LStripChars(Tail(s), chars) ELSE s

RECURSIVE RStripChars(_, _)
RStripChars(s, chars) ==
    IF s # <<>> /\ s[Len(s)] \in chars
    THEN RStripChars(SubSeq(s, 1, Len(s) - 1), chars)
    ELSE s

LStrip(s) == LStripChars(s, Whitespace)

RStrip(s) == RStripChars(s, Whitespace)

Strip(s) == RStrip(LStrip(s))

normalize_task_name_StripFirst(name) == RemoveColons(Strip(name))

normalize_task_name(name) == Strip(RemoveColons(name))

---------------------------------------------------------------------------
(* Python dict, as a sequence of entries in insertion order *)

DictHas(d, k) == \E j \in 1..Len(d) : d[j].key = k

DictIndex(d, k) == CHOOSE j \in 1..Len(d) : d[j].key = k

\* d[k] = e : an existing key keeps its position and takes the new value
DictSet(d, e) ==
    IF DictHas(d, e.key)
    THEN [d EXCEPT ![DictIndex(d, e.key)] = e]
    ELSE Append(d, e)

DictRemove(d, k) == SelectSeq(d, LAMBDA e : e.key # k)

---------------------------------------------------------------------------
(* The catalogue that read_csv and process_notion_data produce *)

ItemTypes == {"Story", "Task", "Bug"}

Summaries == { <<"a", ":">>, <<"b">> }

Labels == { <<"a">>, <<" ", "b", ":">> }

ItemId(k) == <<"i", k>>

\* Reference keys are the last 32 characters of a link token; nothing keeps
\* them apart from the ID column of the rows.
RefKeysAt(j) == { <<"k", j>>, ItemId(1) }

LabelEntry(k, l) == [key |-> k, isItem |-> FALSE, label |-> l, item |-> 0]

ItemEntry(i) == [key |-> items[i].id, isItem |-> TRUE, label |-> <<>>, item |-> i]

RefDicts(budget) ==
    UNION { { d \in [1..n -> { LabelEntry(k, l) :
                                   k \in UNION { RefKeysAt(j) : j \in 1..n },
                                   l \in Labels }] :
                /\ \A j \in 1..n : d[j].key \in RefKeysAt(j)
                /\ \A j1, j2 \in 1..n : j1 # j2 => d[j1].key # d[j2].key }
            : n \in 0..budget }

RECURSIVE SumLen(_)
SumLen(ss) == IF ss = <<>> THEN 0 ELSE Len(Head(ss)) + SumLen(Tail(ss))

---------------------------------------------------------------------------
(* reorganize_epic_tasks *)

ItemsOfType(t) == SelectSeq([i \in 1..Len(items) |-> i], LAMBDA i : items[i].type = t)

MapEntry(i) == [key |-> normalize_task_name(items[i].summary), item |-> i]

RECURSIVE BuildTaskMap(_)
BuildTaskMap(ts) ==
    IF ts = <<>> THEN <<>>
    ELSE DictSet(BuildTaskMap(SubSeq(ts, 1, Len(ts) - 1)), MapEntry(ts[Len(ts)]))

MapGet(map, n) == map[DictIndex(map, n)].item

\* the lookup without the removal
MapPop_Get(map, n) == map

MapPop(map, n) == DictRemove(map, n)

\* The body of the loop over one parent's child_items: lines 226-232 for a
\* Task, 243-249 for a Story.  Returns the shrunk task_map and the parent's
\* new_child_items.
RECURSIVE AttachChildren(_, _, _, _)
AttachChildren(refs, map, new, missed) ==
    IF refs = <<>> THEN [map |-> map, new |-> new, missed |-> missed]
    ELSE LET r == Head(refs)
             normalized_name == normalize_task_name(r.label)
         IN  IF DictHas(map, normalized_name)
             THEN AttachChildren(Tail(refs), MapPop(map, normalized_name),
                                 DictSet(new, ItemEntry(MapGet(map, normalized_name))),
                                 missed)
             ELSE AttachChildren(Tail(refs), map, DictSet(new, r), missed \cup {r})

MapValues(map) == [j \in 1..Len(map) |-> map[j].item]

---------------------------------------------------------------------------
(* Issue creation: JiraIntegrator of data_script.py *)

CreateCall(k, i, t, p) == [op |-> "create", key |-> k, item |-> i, issuetype |-> t, parent |-> p]

TransitionCall(k, i) == [op |-> "transition", key |-> k, item |-> i, issuetype |-> "", parent |-> 0]

NextKey(cs) == Cardinality({ j \in 1..Len(cs) : cs[j].op = "create" }) + 1

\* the key create_epic returned (line 411)
EpicKey(cs) == cs[1].key

\* a create_issue call that raised: no key comes back
FailedCall(i, t, p) == [op |-> "create_failed", key |-> 0, item |-> i, issuetype |-> t, parent |-> p]

RECURSIVE CreateSubtasks_UnderEpic(_, _, _, _)
CreateSubtasks_UnderEpic(entries, parentKey, cs, its) ==
    IF entries = <<>> THEN [calls |-> cs, items |-> its]
    ELSE LET e == Head(entries) IN
         IF ~e.isItem
         THEN CreateSubtasks_UnderEpic(Tail(entries), parentKey, cs, its)
         ELSE LET k == NextKey(cs) IN
              CreateSubtasks_UnderEpic(Tail(entries), parentKey,
                  cs \o << CreateCall(k, e.item, "Sub-task", EpicKey(cs)),
                           TransitionCall(k, e.item) >>,
                  [its EXCEPT ![e.item].type = "Sub-task"])

\* The loop over one task's child_items (lines 372-388): the calls made and
\* the items retyped to Sub-task.
RECURSIVE CreateSubtasks(_, _, _, _)
CreateSubtasks(entries, parentKey, cs, its) ==
    IF entries = <<>> THEN [calls |-> cs, items |-> its]
    ELSE LET e == Head(entries) IN
         IF ~e.isItem
         THEN CreateSubtasks(Tail(entries), parentKey, cs, its)
         ELSE LET k == NextKey(cs) IN
              CreateSubtasks(Tail(entries), parentKey,
                  cs \o << CreateCall(k, e.item, "Sub-task", parentKey),
                           TransitionCall(k, e.item) >>,
                  [its EXCEPT ![e.item].type = "Sub-task"])

\* the entries of a child_items dict that hold an item
ItemEntries(entries) == SelectSeq(entries, LAMBDA e : e.isItem)

\* The same loop when the create_issue call for the n-th item entry raises:
\* the calls made up to it, and the items retyped up to it (line 375 runs
\* before the call).
RECURSIVE CreateSubtasksRaising(_, _, _, _, _)
CreateSubtasksRaising(entries, parentKey, cs, its, n) ==
    LET e == Head(entries) IN
    IF ~e.isItem
    THEN CreateSubtasksRaising(Tail(entries), parentKey, cs, its, n)
    ELSE IF n = 1
    THEN [calls |-> Append(cs, FailedCall(e.item, "Sub-task", parentKey)),
          items |-> [its EXCEPT ![e.item].type = "Sub-task"]]
    ELSE LET k == NextKey(cs) IN
         CreateSubtasksRaising(Tail(entries), parentKey,
             cs \o << CreateCall(k, e.item, "Sub-task", parentKey),
                      TransitionCall(k, e.item) >>,
             [its EXCEPT ![e.item].type = "Sub-task"], n - 1)

---------------------------------------------------------------------------
(* Actions of the data_script pipeline *)

FlattenIdle ==
    /\ fpc = "idle" /\ pool = <<>> /\ sub_ids = <<>> /\ slot = <<>>
    /\ copy_subs = <<>> /\ fcursor = 0 /\ new_tasks = <<>>
    /\ processed_task_ids = {} /\ result_tasks = <<>>

Init ==
    /\ pc = "read"
    /\ items = <<>>
    /\ child_items = <<>>
    /\ refs0 = <<>>
    /\ stories = <<>>
    /\ tasks = <<>>
    /\ task_map = <<>>
    /\ tcursor = 0
    /\ scursor = 0
    /\ unmatched = {}
    /\ epic_items = <<>>
    /\ calls = <<>>
    /\ hcursor = 0
    /\ FlattenIdle
    /\ OthersIdle

\* read_csv appends one row
ReadRow ==
    /\ pc = "read"
    /\ Len(items) < MaxItems
    /\ \E t \in ItemTypes, s \in Summaries, d \in RefDicts(MaxRefs - SumLen(child_items)) :
          /\ items' = Append(items, [id |-> ItemId(Len(items) + 1), summary |-> s, type |-> t])
          /\ child_items' = Append(child_items, d)
    /\ UNCHANGED <<unmatched, pc, refs0, stories, tasks, task_map, tcursor, scursor,
                   epic_items, calls, hcursor, fvars, xvars>>

\* lines 213-219: the two lists and the index
StartReorganize ==
    /\ pc = "read"
    /\ pc' = "reorganize"
    /\ refs0' = child_items
    /\ stories' = ItemsOfType("Story")
    /\ tasks' = ItemsOfType("Task")
    /\ task_map' = BuildTaskMap(ItemsOfType("Task"))
    /\ tcursor' = 1
    /\ scursor' = 1
    /\ UNCHANGED <<unmatched, items, child_items, epic_items, calls, hcursor, fvars, xvars>>

\* lines 222-234: one iteration of the first pass
Pass1Step ==
    /\ pc = "reorganize"
    /\ tcursor <= Len(tasks)
    /\ LET task == tasks[tcursor]
           r == AttachChildren(child_items[task], task_map, <<>>, {})
       IN  /\ task_map' = r.map
           /\ child_items' = [child_items EXCEPT ![task] = r.new]
           /\ unmatched' = unmatched \cup { [parent |-> task, entry |-> e] : e \in r.missed }
    /\ tcursor' = tcursor + 1
    /\ UNCHANGED <<pc, items, refs0, stories, tasks, scursor, epic_items,
                   calls, hcursor, fvars, xvars>>

\* lines 237-251: one iteration of the second pass
Pass2Step ==
    /\ pc = "reorganize"
    /\ tcursor > Len(tasks)
    /\ scursor <= Len(stories)
    /\ LET story == stories[scursor]
           r == AttachChildren(child_items[story], task_map, <<>>, {})
       IN  /\ task_map' = r.map
           /\ child_items' = [child_items EXCEPT ![story] = r.new]
           /\ unmatched' = unmatched \cup { [parent |-> story, entry |-> e] : e \in r.missed }
    /\ scursor' = scursor + 1
    /\ UNCHANGED <<pc, items, refs0, stories, tasks, tcursor, epic_items,
                   calls, hcursor, fvars, xvars>>

\* lines 254-258
Promote ==
    /\ pc = "reorganize"
    /\ tcursor > Len(tasks)
    /\ scursor > Len(stories)
    /\ epic_items' = stories \o MapValues(task_map)
    /\ pc' = "epic"
    /\ UNCHANGED <<unmatched, items, child_items, refs0, stories, tasks, task_map,
                   tcursor, scursor, calls, hcursor, fvars, xvars>>

\* create_epic, called at line 411
create_epic ==
    /\ pc = "epic"
    /\ calls' = Append(calls, CreateCall(NextKey(calls), 0, "Epic", 0))
    /\ pc' = "hierarchy"
    /\ hcursor' = 1
    /\ UNCHANGED <<unmatched, items, child_items, refs0, stories, tasks, task_map,
                   tcursor, scursor, epic_items, fvars, xvars>>

\* create_task_hierarchy: one iteration of the loop over epic['items']
create_task_hierarchy ==
    /\ pc = "hierarchy"
    /\ hcursor <= Len(epic_items)
    /\ LET task_data == epic_items[hcursor]
           k == NextKey(calls)
           r == CreateSubtasks(child_items[task_data], k,
                    calls \o << CreateCall(k, task_data, items[task_data].type, EpicKey(calls)),
                                TransitionCall(k, task_data) >>,
                    items)
       IN  /\ calls' = r.calls
           /\ items' = r.items
    /\ hcursor' = hcursor + 1
    /\ UNCHANGED <<unmatched, pc, child_items, refs0, stories, tasks, task_map, tcursor,
                   scursor, epic_items, fvars, xvars>>

\* jira.create_issue raises inside create_epic: nothing catches it, main ends
create_epic_raises ==
    /\ pc = "epic"
    /\ calls' = Append(calls, FailedCall(0, "Epic", 0))
    /\ pc' = "aborted"
    /\ UNCHANGED <<unmatched, items, child_items, refs0, stories, tasks, task_map,
                   tcursor, scursor, epic_items, hcursor, fvars, xvars>>

\* jira.create_issue raises inside one iteration of create_task_hierarchy, for
\* the task (n = 0) or for its n-th child item: nothing catches it, main ends
create_task_hierarchy_raises ==
    /\ pc = "hierarchy"
    /\ hcursor <= Len(epic_items)
    /\ LET task_data == epic_items[hcursor]
           k == NextKey(calls)
       IN  \E n \in 0..Len(ItemEntries(child_items[task_data])) :
              IF n = 0
              THEN /\ calls' = Append(calls, FailedCall(task_data, items[task_data].type,
                                                        EpicKey(calls)))
                   /\ items' = items
              ELSE LET r == CreateSubtasksRaising(child_items[task_data], k,
                                calls \o << CreateCall(k, task_data, items[task_data].type,
                                                       EpicKey(calls)),
                                            TransitionCall(k, task_data) >>,
                                items, n)
                   IN  /\ calls' = r.calls
                       /\ items' = r.items
    /\ pc' = "aborted"
    /\ UNCHANGED <<unmatched, child_items, refs0, stories, tasks, task_map, tcursor,
                   scursor, epic_items, hcursor, fvars, xvars>>

Next ==
    \/ ReadRow
    \/ StartReorganize
    \/ Pass1Step
    \/ Pass2Step
    \/ Promote
    \/ create_epic
    \/ create_task_hierarchy
    \/ create_epic_raises
    \/ create_task_hierarchy_raises

Spec == Init /\ [][Next]_vars

---------------------------------------------------------------------------
(* The forest built by reorganize_epic_tasks *)

Reorganized == pc \in {"epic", "hierarchy"}

Done == pc = "hierarchy" /\ hcursor > Len(epic_items)

AllItems == 1..Len(items)

\* the item objects stored in the child_items dict of p
EmbeddedIn(p) ==
    { child_items[p][j].item : j \in { x \in 1..Len(child_items[p]) : child_items[p][x].isItem } }

\* the places (parent, position) where item object c is embedded
Embeddings(c) ==
    UNION { { <<p, j>> : j \in { x \in 1..Len(child_items[p]) :
                                    /\ child_items[p][x].isItem
                                    /\ child_items[p][x].item = c } }
            : p \in AllItems }

InSeq(x, sq) == \E j \in 1..Len(sq) : sq[j] = x

\* the item objects reachable from object i through child_items in 1..n steps
RECURSIVE Descendants(_, _)
Descendants(i, n) ==
    IF n = 0 THEN {}
    ELSE EmbeddedIn(i) \cup UNION { Descendants(c, n - 1) : c \in EmbeddedIn(i) }

\* how often item object i occurs in the tree hanging from root, n levels deep
RECURSIVE Occurrences(_, _, _)
RECURSIVE OccurrencesBelow(_, _, _)
Occurrences(i, root, n) ==
    (IF root = i THEN 1 ELSE 0)
    + (IF n = 0 THEN 0 ELSE OccurrencesBelow(i, child_items[root], n - 1))
OccurrencesBelow(i, entries, n) ==
    IF entries = <<>> THEN 0
    ELSE (IF Head(entries).isItem THEN Occurrences(i, Head(entries).item, n) ELSE 0)
         + OccurrencesBelow(i, Tail(entries), n)

RECURSIVE OccurrencesInForest(_, _)
OccurrencesInForest(i, roots) ==
    IF roots = <<>> THEN 0
    ELSE Occurrences(i, Head(roots), Len(items)) + OccurrencesInForest(i, Tail(roots))

\* the create calls made for the children of top-level item p
SubtaskCalls(p) ==
    { j \in 1..Len(calls) :
          /\ calls[j].op = "create"
          /\ calls[j].issuetype = "Sub-task"
          /\ \E h \in 1..Len(calls) :
                /\ calls[h].op = "create" /\ calls[h].item = p
                /\ calls[h].parent = EpicKey(calls)
                /\ calls[h].key = calls[j].parent }

\* the item the index of pass 0 holds for a normalized name (0: none)
Indexed(n) ==
    LET m == BuildTaskMap(tasks) IN IF DictHas(m, n) THEN MapGet(m, n) ELSE 0

\* item p was read with a reference whose normalized label is n
RefersTo(p, n) ==
    \E j \in 1..Len(refs0[p]) : normalize_task_name(refs0[p][j].label) = n

---------------------------------------------------------------------------
(* Claims about reorganize_epic_tasks *)

\* C1: after reorganize_epic_tasks every item of the epic's input occurs
\* exactly once among the top-level items and the items embedded at any depth
\* below them: none is lost, none occurs twice.
C1_Conservation ==
    Reorganized => \A i \in AllItems : OccurrencesInForest(i, epic_items) = 1

\* C2: an item matched by a reference is removed from task_map when it is
\* embedded, so no item is embedded in two places, an embedded item is no
\* longer in the lookup pool, and an embedded item is never emitted as a
\* top-level entry.
C2_ClaimedOnce ==
    \A c \in AllItems :
        /\ Cardinality(Embeddings(c)) <= 1
        /\ Embeddings(c) # {} =>
              /\ ~InSeq(c, MapValues(task_map))
              /\ ~InSeq(c, epic_items)

\* two different items were read with a reference to the name of Task c, and
\* c has been embedded under one of them
C2_Witness ==
    /\ Reorganized
    /\ \E c \in AllItems, p1 \in AllItems, p2 \in AllItems :
          /\ p1 # p2 /\ c # p1 /\ c # p2
          /\ Indexed(normalize_task_name(items[c].summary)) = c
          /\ RefersTo(p1, normalize_task_name(items[c].summary))
          /\ RefersTo(p2, normalize_task_name(items[c].summary))
          /\ InSeq(p1, tasks) /\ InSeq(p2, stories)
          /\ c \in EmbeddedIn(p1)

\* C3: no item is embedded in its own child_items, directly or transitively.
C3_NoCycles ==
    \A i \in AllItems : i \notin Descendants(i, Len(items))

\* C4: when a Task T and a Story S were both read with a reference whose
\* normalized label is the name under which the index holds Task C, then
\* after reorganize_epic_tasks C is embedded under a Task, not under S, and S
\* still holds its reference as an unresolved (key, label) pair.
C4_TaskBeforeStory ==
    Reorganized =>
        \A T \in AllItems, S \in AllItems, C \in AllItems :
            LET n == normalize_task_name(items[C].summary) IN
            ( /\ InSeq(T, tasks) /\ InSeq(S, stories) /\ InSeq(C, tasks)
              /\ T # C
              /\ Indexed(n) = C
              /\ RefersTo(T, n) /\ RefersTo(S, n) )
            => /\ \E P \in AllItems : InSeq(P, tasks) /\ C \in EmbeddedIn(P)
               /\ C \notin EmbeddedIn(S)
               /\ \A j \in 1..Len(refs0[S]) :
                     normalize_task_name(refs0[S][j].label) = n
                     => InSeq(refs0[S][j], child_items[S])

\* C5: a reference whose normalized label was not in the lookup pool when it
\* was looked up is in its parent's final child_items under its key with its
\* label, for Tasks and Stories alike; issue creation then makes no call for
\* it and runs to the end.
C5_UnresolvedKept ==
    /\ Reorganized => \A u \in unmatched : InSeq(u.entry, child_items[u.parent])
    /\ Done => \A h \in 1..Len(epic_items) :
                  Cardinality(SubtaskCalls(epic_items[h]))
                      = Cardinality(EmbeddedIn(epic_items[h]))

---------------------------------------------------------------------------
(* resolve_nested_tasks of transfer_script.py                              *)
(*                                                                         *)
(* data['tasks'] maps an id to a record; a record's sub_tasks is a list of *)
(* ids.  The first pass replaces every record in the mapping by a shallow  *)
(* copy; the second pass replaces the sub_tasks of every copy by a list of *)
(* references to the copies of the ids found in the mapping.               *)

MaxSubTasks == 2     \* ids in one record's sub_tasks relation

TaskIds == {"A", "B", "C"}

\* an id that a relation can name although no fetched record has it
MissingIds == {"X"}

\* a relation lists a page at most once
SubTaskLists ==
    UNION { { l \in [1..n -> TaskIds \cup MissingIds] :
                  \A j1, j2 \in 1..n : j1 # j2 => l[j1] # l[j2] }
            : n \in 0..MaxSubTasks }

IdRef(x) == [isRecord |-> FALSE, id |-> x]

RecordRef(x) == [isRecord |-> TRUE, id |-> x]

InPool(x) == InSeq(x, pool)

\* line 311: the sub-task id is a key of resolved_data['tasks']
SubTaskFound_Never(sub_task_id) == FALSE

SubTaskFound(sub_task_id) == InPool(sub_task_id)

\* lines 306-319: the list resolved_sub_tasks built from a list of ids
RECURSIVE ResolveSubTasks(_)
ResolveSubTasks(entries) ==
    IF entries = <<>> THEN <<>>
    ELSE IF SubTaskFound(Head(entries).id)
         THEN <<RecordRef(Head(entries).id)>> \o ResolveSubTasks(Tail(entries))
         ELSE ResolveSubTasks(Tail(entries))

\* lines 311-316: the ids marked as processed
Claimed(entries) ==
    { entries[j].id : j \in { x \in 1..Len(entries) : SubTaskFound(entries[x].id) } }

\* lines 328-329 without the removal
RemoveProcessed_Keep(nt, done) == nt

\* lines 328-329: new_tasks.pop(task_id, None) for every processed id
RemoveProcessed(nt, done) == SelectSeq(nt, LAMBDA t : t \notin done)

DataIdle ==
    /\ pc = "idle" /\ items = <<>> /\ child_items = <<>> /\ refs0 = <<>>
    /\ stories = <<>> /\ tasks = <<>> /\ task_map = <<>> /\ tcursor = 0
    /\ scursor = 0 /\ unmatched = {} /\ epic_items = <<>> /\ calls = <<>>
    /\ hcursor = 0

InitFlatten ==
    /\ DataIdle
    /\ OthersIdle
    /\ fpc = "fetch"
    /\ pool = <<>>
    /\ sub_ids = <<>>
    /\ slot = <<>>
    /\ copy_subs = <<>>
    /\ fcursor = 0
    /\ new_tasks = <<>>
    /\ processed_task_ids = {}
    /\ result_tasks = <<>>

\* fetch_detailed_data, lines 136-150: one related task is added to the pool
FetchTask ==
    /\ fpc = "fetch"
    /\ \E t \in TaskIds, l \in SubTaskLists :
          /\ ~InPool(t)
          /\ pool' = Append(pool, t)
          /\ sub_ids' = (t :> l) @@ sub_ids
          /\ slot' = (t :> "orig") @@ slot
    /\ UNCHANGED <<fpc, copy_subs, fcursor, new_tasks, processed_task_ids,
                   result_tasks, dvars, xvars>>

\* lines 287-299: the shallow copy of data and the first pass, which puts a
\* shallow copy of every record into the mapping shared with the argument
FirstPass ==
    /\ fpc = "fetch"
    /\ fpc' = "second"
    /\ slot' = [t \in DOMAIN slot |-> "copy"]
    /\ copy_subs' = [t \in DOMAIN sub_ids |->
                        [j \in 1..Len(sub_ids[t]) |-> IdRef(sub_ids[t][j])]]
    /\ new_tasks' = <<>>
    /\ processed_task_ids' = {}
    /\ fcursor' = 1
    /\ UNCHANGED <<pool, sub_ids, result_tasks, dvars, xvars>>

\* lines 302-325: one iteration of the second pass
SecondPassStep ==
    /\ fpc = "second"
    /\ fcursor <= Len(pool)
    /\ LET task_id == pool[fcursor] IN
          /\ IF copy_subs[task_id] # <<>>
             THEN /\ copy_subs' = [copy_subs EXCEPT
                                      ![task_id] = ResolveSubTasks(copy_subs[task_id])]
                  /\ processed_task_ids' =
                         processed_task_ids \cup Claimed(copy_subs[task_id])
             ELSE UNCHANGED <<copy_subs, processed_task_ids>>
          /\ new_tasks' = Append(new_tasks, task_id)
    /\ fcursor' = fcursor + 1
    /\ UNCHANGED <<fpc, pool, sub_ids, slot, result_tasks, dvars, xvars>>

\* lines 328-334
FinishResolve ==
    /\ fpc = "second"
    /\ fcursor > Len(pool)
    /\ new_tasks' = RemoveProcessed(new_tasks, processed_task_ids)
    /\ result_tasks' = RemoveProcessed(new_tasks, processed_task_ids)
    /\ fpc' = "done"
    /\ UNCHANGED <<pool, sub_ids, slot, copy_subs, fcursor, processed_task_ids, dvars, xvars>>

\* the subtask entries map_notion_to_jira_fields appends for one task, with
\* those of the records embedded one level further down as well
SubtaskEntries_Deeper(subs) ==
    IF subs = <<>> THEN <<>>
    ELSE [j \in 1..Len(subs) |-> subs[j].id] \o
         (IF copy_subs[subs[1].id] = <<>> THEN <<>>
          ELSE [j \in 1..Len(copy_subs[subs[1].id]) |-> copy_subs[subs[1].id][j].id])

\* lines 366-373: one subtask entry for each element of task_info['sub_tasks']
SubtaskEntries(subs) == [j \in 1..Len(subs) |-> subs[j].id]

\* map_notion_to_jira_fields (lines 355-374): one task entry for each value of
\* notion_data['tasks']; subtask.get on an element that is an id string raises
\* and main's except ends the run
map_notion_to_jira_fields ==
    /\ fpc = "done"
    /\ IF \A j \in 1..Len(result_tasks) :
             \A h \in 1..Len(copy_subs[result_tasks[j]]) :
                 copy_subs[result_tasks[j]][h].isRecord
       THEN /\ jira_tasks' = [j \in 1..Len(result_tasks) |->
                                 [task |-> result_tasks[j],
                                  subtasks |-> SubtaskEntries(copy_subs[result_tasks[j]])]]
            /\ fpc' = "mapped"
       ELSE /\ jira_tasks' = jira_tasks
            /\ fpc' = "failed"
    /\ UNCHANGED <<pool, sub_ids, slot, copy_subs, fcursor, new_tasks,
                   processed_task_ids, result_tasks, tcalls, jcursor,
                   dvars, nvars, evars, svars, tvars>>

TransferCall(k, x, t, p) == [key |-> k, record |-> x, issuetype |-> t, parent |-> p]

\* transfer_script's create_epic, called at line 401
transfer_create_epic ==
    /\ fpc = "mapped"
    /\ tcalls' = <<TransferCall(1, "", "Epic", 0)>>
    /\ jcursor' = 1
    /\ fpc' = "create"
    /\ UNCHANGED <<pool, sub_ids, slot, copy_subs, fcursor, new_tasks,
                   processed_task_ids, result_tasks, jira_tasks,
                   dvars, nvars, evars, svars, tvars>>

\* transfer_script's create_task_hierarchy (lines 245-269): one iteration of
\* the loop over the task entries, with its loop over the subtask entries
transfer_create_task_hierarchy ==
    /\ fpc = "create"
    /\ jcursor <= Len(jira_tasks)
    /\ LET task_data == jira_tasks[jcursor]
           k == Len(tcalls) + 1
       IN  tcalls' = tcalls
                \o <<TransferCall(k, task_data.task, "Task", tcalls[1].key)>>
                \o [j \in 1..Len(task_data.subtasks) |->
                        TransferCall(k + j, task_data.subtasks[j], "Subtask", k)]
    /\ jcursor' = jcursor + 1
    /\ UNCHANGED <<fpc, pool, sub_ids, slot, copy_subs, fcursor, new_tasks,
                   processed_task_ids, result_tasks, jira_tasks,
                   dvars, nvars, evars, svars, tvars>>

NextFlatten ==
    \/ FetchTask
    \/ FirstPass
    \/ SecondPassStep
    \/ FinishResolve
    \/ map_notion_to_jira_fields
    \/ transfer_create_epic
    \/ transfer_create_task_hierarchy

SpecFlatten == InitFlatten /\ [][NextFlatten]_vars

---------------------------------------------------------------------------
(* Claims about resolve_nested_tasks *)

Resolved == fpc = "done"

HasRecord(t, x) == InSeq(RecordRef(x), copy_subs[t])

\* the records of the pool in whose final sub_tasks record x is embedded
ParentsOf(x) == { t \in DOMAIN copy_subs : HasRecord(t, x) }

IsChain(a, b, c) ==
    /\ a # b /\ b # c /\ a # c
    /\ DOMAIN sub_ids = {a, b, c}
    /\ sub_ids[a] = <<b>> /\ sub_ids[b] = <<c>> /\ sub_ids[c] = <<>>

\* C6: for a chain a -> b -> c, in every insertion order of the pool, the
\* returned mapping holds only a, whose sub_tasks holds the record b once,
\* whose sub_tasks holds the record c once.
C6_Chain ==
    Resolved =>
        \A a \in TaskIds, b \in TaskIds, c \in TaskIds :
            IsChain(a, b, c) =>
                /\ result_tasks = <<a>>
                /\ copy_subs[a] = <<RecordRef(b)>>
                /\ copy_subs[b] = <<RecordRef(c)>>
                /\ copy_subs[c] = <<>>

\* the chain C -> A -> B fetched in the order A, B, C has been resolved
C6_Witness ==
    /\ Resolved
    /\ pool = <<"A", "B", "C">>
    /\ IsChain("C", "A", "B")

\* C7: a record that lists its own id is not embedded into itself and stays
\* at the top level of the returned mapping.
C7_SelfReferenceRejected ==
    Resolved =>
        \A t \in DOMAIN sub_ids :
            InSeq(t, sub_ids[t]) => /\ ~HasRecord(t, t)
                                    /\ InSeq(t, result_tasks)

\* C8: no record is embedded in the sub_tasks of two other records.
C8_OneParent ==
    \A x \in DOMAIN copy_subs : Cardinality(ParentsOf(x) \ {x}) <= 1

\* C9: the returned mapping holds no record whose id is listed in the
\* sub_tasks of a record of the pool, no record that has been embedded, and
\* the sub_tasks of every record it holds consists of records, not ids.
C9_TopLevel ==
    Resolved =>
        /\ \A t \in DOMAIN sub_ids :
              InSeq(t, result_tasks) =>
                  /\ \A r \in DOMAIN sub_ids : ~InSeq(t, sub_ids[r])
                  /\ \A j \in 1..Len(copy_subs[t]) : copy_subs[t][j].isRecord
        /\ \A x \in DOMAIN copy_subs : ParentsOf(x) # {} => ~InSeq(x, result_tasks)

\* a returned record embeds another one and listed an id that is not in the pool
C9_Witness ==
    /\ Resolved
    /\ \E t \in DOMAIN sub_ids :
          /\ InSeq(t, result_tasks)
          /\ \E x \in DOMAIN sub_ids : x # t /\ HasRecord(t, x)
          /\ \E x \in MissingIds : InSeq(x, sub_ids[t])

\* C10: an id listed in sub_tasks that is no key of the pool is still in the
\* record's final sub_tasks, as an id.
C10_MissRetained ==
    Resolved =>
        \A t \in DOMAIN sub_ids : \A j \in 1..Len(sub_ids[t]) :
            ~InPool(sub_ids[t][j]) => InSeq(IdRef(sub_ids[t][j]), copy_subs[t])

---------------------------------------------------------------------------
(* normalize_task_name applied once and again (data_script.py) *)

MaxNameLen == 4

NameChars == {"a", ":", " ", "\t"}

Names == UNION { [1..n -> NameChars] : n \in 0..MaxNameLen }

InitNormalize ==
    /\ DataIdle /\ FlattenIdle
    /\ ExtractIdle /\ StatusIdle /\ TitleIdle /\ MappingIdle
    /\ npc = "name"
    /\ nname \in Names
    /\ nonce = <<>>
    /\ ntwice = <<>>

NormalizeOnce ==
    /\ npc = "name"
    /\ nonce' = normalize_task_name(nname)
    /\ npc' = "once"
    /\ UNCHANGED <<nname, ntwice, dvars, fvars, evars, svars, tvars, jvars>>

NormalizeAgain ==
    /\ npc = "once"
    /\ ntwice' = normalize_task_name(nonce)
    /\ npc' = "twice"
    /\ UNCHANGED <<nname, nonce, dvars, fvars, evars, svars, tvars, jvars>>

NextNormalize == NormalizeOnce \/ NormalizeAgain

SpecNormalize == InitNormalize /\ [][NextNormalize]_vars

HasColon(s) == \E j \in 1..Len(s) : s[j] = ":"

Trimmed(s) == s = <<>> \/ (Head(s) \notin Whitespace /\ s[Len(s)] \notin Whitespace)

---------------------------------------------------------------------------
(* process_child_tasks: the links of a raw reference text (data_script.py) *)

MaxLinks == 2

KeyLen == 32

Hex12 == <<"a", "1", "b", "2", "c", "3", "d", "4", "e", "5", "f", "6">>

PageId == Hex12 \o Hex12 \o SubSeq(Hex12, 1, 8)

LinkLabels ==
    { <<"D", "e", "s", "i", "g", "n">>,
      <<"D", "o", "c", ":">>,
      <<"M", "y", "%", "2", "0", "T">> }

LinkTokens ==
    { pre \o id : pre \in { <<>>, <<"x">>,
                             <<"D", "e", "s", "i", "g", "n", "%", "2", "0",
                               "D", "o", "c", " ">> },
                  id \in { PageId, <<"a", "b">> } }

Extensions == { <<".", "m", "d">>, <<".", "t", "x", "t">> }

Links == [label : LinkLabels, token : LinkTokens, ext : Extensions]

IsMd(link) == link.ext = <<".", "m", "d">>

RenderLink(link) == link.label \o <<" ", "(">> \o link.token \o link.ext \o <<")">>

RECURSIVE RenderLinks(_)
RenderLinks(ls) ==
    IF ls = <<>> THEN <<>>
    ELSE IF Len(ls) = 1 THEN RenderLink(ls[1])
    ELSE RenderLink(ls[1]) \o <<",", " ">> \o RenderLinks(Tail(ls))

\* position of the first c in text at or after pos; 0 when there is none
FirstAt(text, c, pos) ==
    IF \E j \in pos..Len(text) : text[j] = c
    THEN CHOOSE j \in pos..Len(text) :
             text[j] = c /\ \A h \in pos..(j - 1) : text[h] # c
    ELSE 0

\* re.findall(r'([^(]+)\s?\(([^)]+)\.md\)', text) from position pos on:
\* group 1 runs from pos to the next "(", group 2 from there to ".md)" at
\* the next ")"; a failed attempt is retried one character after the "(".
RECURSIVE FindAll(_, _)
FindAll(text, pos) ==
    LET q == FirstAt(text, "(", pos)
        r == IF q = 0 THEN 0 ELSE FirstAt(text, ")", q + 1)
    IN  IF q = 0 THEN <<>>
        ELSE IF /\ q > pos
                /\ r # 0
                /\ r - q >= 5
                /\ SubSeq(text, r - 3, r - 1) = <<".", "m", "d">>
        THEN <<[g1 |-> SubSeq(text, pos, q - 1),
                g2 |-> SubSeq(text, q + 1, r - 4)]>> \o FindAll(text, r + 1)
        ELSE FindAll(text, q + 1)

\* s.replace('%20', ' ')
RECURSIVE ReplacePercent20(_)
ReplacePercent20(s) ==
    IF s = <<>> THEN <<>>
    ELSE IF Len(s) >= 3 /\ SubSeq(s, 1, 3) = <<"%", "2", "0">>
    THEN <<" ">> \o ReplacePercent20(SubSeq(s, 4, Len(s)))
    ELSE <<Head(s)>> \o ReplacePercent20(Tail(s))

LinkName(g1) ==
    normalize_task_name(LStripChars(ReplacePercent20(Strip(g1)), {",", " "}))

LinkId_First(g2) == SubSeq(g2, 1, IF Len(g2) < KeyLen THEN Len(g2) ELSE KeyLen)

\* match[1][-32:]
LinkId(g2) == IF Len(g2) <= KeyLen THEN g2 ELSE SubSeq(g2, Len(g2) - KeyLen + 1, Len(g2))

RECURSIVE CollectLinks(_, _)
CollectLinks(matches, result) ==
    IF matches = <<>> THEN result
    ELSE CollectLinks(Tail(matches),
                      DictSet(result, [key |-> LinkId(Head(matches).g2),
                                       label |-> LinkName(Head(matches).g1)]))

InitExtract ==
    /\ DataIdle /\ FlattenIdle
    /\ NormalizeIdle /\ StatusIdle /\ TitleIdle /\ MappingIdle
    /\ epc = "text"
    /\ elinks \in UNION { [1..n -> Links] : n \in 0..MaxLinks }
    /\ etext = RenderLinks(elinks)
    /\ eresult = <<>>

process_child_tasks ==
    /\ epc = "text"
    /\ eresult' = CollectLinks(FindAll(etext, 1), <<>>)
    /\ epc' = "done"
    /\ UNCHANGED <<elinks, etext, dvars, fvars, nvars, svars, tvars, jvars>>

NextExtract == process_child_tasks

SpecExtract == InitExtract /\ [][NextExtract]_vars

MdLinks == { j \in 1..Len(elinks) : IsMd(elinks[j]) }

\* C11: the mapping has one entry for each `label(token.md)` occurrence of
\* the text, also when two tokens end in the same 32 characters; its keys are
\* the last 32 characters of the tokens (the whole token when shorter), and a
\* text without occurrence gives the empty mapping.
C11_EntryPerOccurrence ==
    epc = "done" =>
        /\ Len(eresult) = Cardinality(MdLinks)
        /\ { eresult[h].key : h \in 1..Len(eresult) }
               = { LinkId(elinks[j].token) : j \in MdLinks }
        /\ MdLinks = {} => eresult = <<>>

ExampleLink ==
    [label |-> <<"D", "e", "s", "i", "g", "n">>,
     token |-> <<"D", "e", "s", "i", "g", "n", "%", "2", "0", "D", "o", "c", " ">>
                   \o PageId,
     ext   |-> <<".", "m", "d">>]

ExampleDone == epc = "done" /\ elinks = <<ExampleLink>>

\* C12 as stated: the example text gives the one entry whose key is the page
\* id and whose value is "Design Doc".
C12_ExampleDesignDoc ==
    ExampleDone =>
        eresult = <<[key |-> PageId,
                     label |-> <<"D", "e", "s", "i", "g", "n", " ", "D", "o", "c">>]>>

\* C12: the example text gives the one entry whose key is the page id and
\* whose value is the text before the parenthesis, "Design".
C12_ExampleDesign ==
    ExampleDone =>
        eresult = <<[key |-> PageId, label |-> <<"D", "e", "s", "i", "g", "n">>]>>

\* the example text has been processed
C12_Witness == ExampleDone /\ Len(etext) = 57 /\ Len(eresult) = 1

---------------------------------------------------------------------------
(* process_task_status on the Status column of a row (data_script.py) *)

Backlog == <<"b", "a", "c", "k", "l", "o", "g">>

StatusNames == { Backlog, <<"d", "o", "n", "e">>, <<"w", "i", "p">> }

TargetStatuses == {"Backlog", "Done"}

\* the contents status.json can have: the default bucket is configured
StatusMappings ==
    UNION { [K -> TargetStatuses] : K \in { S \in SUBSET StatusNames : Backlog \in S } }

RawStatuses ==
    { <<>>, <<" ">>, <<"D", "o", "n", "e">>, <<"d", "o", "n", "e", " ">>,
      <<"W", "I", "P">>, <<"B", "a", "c", "k", "l", "o", "g">>,
      <<"t", "r", "i", "a", "g", "i", "n", "g">>, <<"T", "r", "i", "a", "g", "e">> }

LowerChar(c) ==
    CASE c = "B" -> "b" [] c = "D" -> "d" [] c = "I" -> "i" [] c = "P" -> "p"
      [] c = "T" -> "t" [] c = "W" -> "w" [] OTHER -> c

\* str.lower()
Lower(s) == [j \in 1..Len(s) |-> LowerChar(s[j])]

\* status_mapping.get(status)
MappingGet(mapping, status) ==
    IF status \in DOMAIN mapping THEN Some(mapping[status]) ELSE None

process_task_status(mapping, status) ==
    MappingGet(mapping, IF status = <<>> THEN Backlog ELSE status)

InitStatus ==
    /\ DataIdle /\ FlattenIdle
    /\ NormalizeIdle /\ ExtractIdle /\ TitleIdle /\ MappingIdle
    /\ spc = "row"
    /\ smapping \in StatusMappings
    /\ sraw \in RawStatuses
    /\ sstatus = None

\* read_csv: status = row.get("Status", "").strip(), then
\* process_task_status(status.lower())
ReadStatus ==
    /\ spc = "row"
    /\ sstatus' = process_task_status(smapping, Lower(Strip(sraw)))
    /\ spc' = "done"
    /\ UNCHANGED <<smapping, sraw, dvars, fvars, nvars, evars, tvars, jvars>>

NextStatus == ReadStatus

SpecStatus == InitStatus /\ [][NextStatus]_vars

\* C13: the status stored for a row is never None, and a status name that is
\* not a key of the mapping, like an empty one, gets the backlog bucket.
C13_DefaultsToBacklog ==
    spc = "done" =>
        /\ sstatus # None
        /\ Lower(Strip(sraw)) \notin DOMAIN smapping => sstatus = Some(smapping[Backlog])

---------------------------------------------------------------------------
(* The title of a page, from fetch_detailed_data to the issue summary
   (transfer_script.py) *)

MaxTitleParts == 2

Levels == {"epic", "task", "subtask"}

TitleContents == {"Login", "Fix", "Plan"}

TitleProperties == UNION { [1..n -> TitleContents] : n \in 0..MaxTitleParts }

TitleKey(level) == IF level = "epic" THEN "story" ELSE "task"

\* the keys of the dictionary fetch_detailed_data builds for a page
FetchedKeys(level) ==
    {TitleKey(level), "description", "assignee", "reported_by"}
        \cup (IF level = "epic" THEN {"tasks"} ELSE {"sub_tasks"})

Placeholder(level) ==
    CASE level = "epic" -> "Unnamed Epic"
      [] level = "task" -> "Unnamed Task"
      [] OTHER -> "Unnamed Subtask"

\* dict.get(key, default) on a dictionary with these keys, holding value under key
GetOrDefault(keys, value, key, default) == IF key \in keys THEN value ELSE default

InitTitle ==
    /\ DataIdle /\ FlattenIdle
    /\ NormalizeIdle /\ ExtractIdle /\ StatusIdle /\ MappingIdle
    /\ tpc = "page"
    /\ tlevel \in Levels
    /\ ttitle \in TitleProperties
    /\ tfetched = None
    /\ tsummary = None

\* title[0]["text"]["content"] if title else None
FetchTitle ==
    /\ tpc = "page"
    /\ tfetched' = IF ttitle # <<>> THEN Some(ttitle[1]) ELSE None
    /\ tpc' = "fetched"
    /\ UNCHANGED <<tlevel, ttitle, tsummary, dvars, fvars, nvars, evars, svars, jvars>>

\* 'summary': record.get('story' or 'task', 'Unnamed ...')
ProjectSummary ==
    /\ tpc = "fetched"
    /\ tsummary' = GetOrDefault(FetchedKeys(tlevel), tfetched, TitleKey(tlevel),
                                Some(Placeholder(tlevel)))
    /\ tpc' = "projected"
    /\ UNCHANGED <<tlevel, ttitle, tfetched, dvars, fvars, nvars, evars, svars, jvars>>

NextTitle == FetchTitle \/ ProjectSummary

SpecTitle == InitTitle /\ [][NextTitle]_vars

\* C16: a page with an empty title property is projected with the
\* placeholder of its level as summary, never with None.
C16_PlaceholderSummary ==
    tpc = "projected" =>
        /\ tsummary # None
        /\ ttitle = <<>> => tsummary = Some(Placeholder(tlevel))

---------------------------------------------------------------------------
(* The argument of resolve_nested_tasks, as its caller sees it *)

\* the sub_tasks list as fetch_detailed_data built it: ids only
FetchedSubTasks(t) == [j \in 1..Len(sub_ids[t]) |-> IdRef(sub_ids[t][j])]

\* data['tasks'][t]['sub_tasks']: data['tasks'] is the mapping the function
\* works on, so it shows the object the slot of t holds at present
ArgSubTasks(t) == IF slot[t] = "orig" THEN FetchedSubTasks(t) ELSE copy_subs[t]

\* C18: resolve_nested_tasks leaves its argument as it was: every record of
\* data['tasks'] keeps the sub_tasks list it was fetched with.
C18_ArgumentUnchanged ==
    \A t \in DOMAIN slot : ArgSubTasks(t) = FetchedSubTasks(t)

---------------------------------------------------------------------------
(* Claims about issue creation in data_script.py *)

TopLevel == { epic_items[h] : h \in 1..Len(epic_items) }

\* the items for which create_issue has been called, whether it returned or raised
ItemsWithCall ==
    { calls[j].item : j \in { x \in 1..Len(calls) : calls[x].op \in {"create", "create_failed"} } }

\* C14: when the create call of one item has failed, every other item of the
\* epic, top-level or child, still gets its create call.
C14_FailureIsolated ==
    (pc = "aborted" /\ calls[Len(calls)].item # 0) =>
        \A p \in TopLevel :
            /\ p \in ItemsWithCall
            /\ \A c \in EmbeddedIn(p) : c \in ItemsWithCall

\* the create call that returned key k comes before position j
CreatedBefore(k, j) ==
    { i \in 1..(j - 1) : calls[i].op = "create" /\ calls[i].key = k }

\* C15: the first call creates the epic; every other create call names as
\* parent the key returned by an earlier create call, that of the epic for a
\* top-level item and that of the item holding it for a child; a transition
\* names the key an earlier create call returned for the same item.
C15_HierarchyOrder ==
    \A j \in 1..Len(calls) :
        /\ calls[j].item = 0 <=> j = 1
        /\ (calls[j].op \in {"create", "create_failed"} /\ j > 1) =>
               \E i \in CreatedBefore(calls[j].parent, j) :
                   \/ calls[i].item = 0 /\ calls[j].item \in TopLevel
                   \/ /\ calls[i].item \in TopLevel
                      /\ calls[i].parent = EpicKey(calls)
                      /\ calls[j].item \in EmbeddedIn(calls[i].item)
        /\ calls[j].op = "transition" =>
               \E i \in CreatedBefore(calls[j].key, j) : calls[i].item = calls[j].item

\* all issues of an epic with two top-level items, one of them with a child, are created
C15_Witness ==
    /\ Done
    /\ Len(epic_items) = 2
    /\ \E j \in 1..Len(calls) :
          /\ calls[j].op = "create" /\ calls[j].issuetype = "Sub-task"
          /\ calls[j].parent # EpicKey(calls)
          /\ calls[j].item \notin TopLevel

---------------------------------------------------------------------------
(* Both programs: a run is a run of data_script.py or of transfer_script.py *)

InitAll == Init \/ InitFlatten

NextAll == Next \/ NextFlatten

SpecAll == InitAll /\ [][NextAll]_vars

Mapped == fpc \in {"mapped", "create"}

TransferDone == fpc = "create" /\ jcursor > Len(jira_tasks)

\* the records with a task entry or a subtask entry in the projection
RecordsWithEntry ==
    { jira_tasks[j].task : j \in 1..Len(jira_tasks) }
        \cup UNION { { jira_tasks[j].subtasks[h] : h \in 1..Len(jira_tasks[j].subtasks) }
                     : j \in 1..Len(jira_tasks) }

\* the records at the top level of the resolved mapping or embedded
\* directly in the sub_tasks of one of them
TwoLevelRecords ==
    { result_tasks[j] : j \in 1..Len(result_tasks) }
        \cup { x \in DOMAIN copy_subs :
                   \E j \in 1..Len(result_tasks) : HasRecord(result_tasks[j], x) }

RECURSIVE SumOf(_, _)
SumOf(f(_), n) == IF n = 0 THEN 0 ELSE f(n) + SumOf(f, n - 1)

\* the items at the top level of the forest or embedded directly in the
\* child_items of one of them
TwoLevelItems == TopLevel \cup UNION { EmbeddedIn(p) : p \in TopLevel }

ItemCreates == { j \in 1..Len(calls) : calls[j].op = "create" /\ calls[j].item # 0 }

\* C19: the projection has one task entry for each top-level record and,
\* under it, one subtask entry for each record directly in its sub_tasks;
\* both create_task_hierarchy functions make one create call for each
\* top-level item and one for each item directly under it; a record that is
\* only embedded deeper has no entry and no create call.
C19_TwoLevels ==
    /\ Mapped =>
          /\ Len(jira_tasks) = Len(result_tasks)
          /\ \A j \in 1..Len(jira_tasks) :
                /\ jira_tasks[j].task = result_tasks[j]
                /\ Len(jira_tasks[j].subtasks) = Len(copy_subs[result_tasks[j]])
                /\ \A h \in 1..Len(jira_tasks[j].subtasks) :
                      copy_subs[result_tasks[j]][h] = RecordRef(jira_tasks[j].subtasks[h])
          /\ \A x \in DOMAIN copy_subs : x \notin TwoLevelRecords => x \notin RecordsWithEntry
    /\ TransferDone =>
          /\ Len(tcalls) = 1 + Len(result_tasks)
                               + SumOf(LAMBDA j : Len(copy_subs[result_tasks[j]]),
                                       Len(result_tasks))
          /\ \A j \in 2..Len(tcalls) : tcalls[j].record \in TwoLevelRecords
    /\ Done =>
          /\ Cardinality(ItemCreates) = Len(epic_items)
                 + SumOf(LAMBDA h : Len(ItemEntries(child_items[epic_items[h]])),
                         Len(epic_items))
          /\ \A j \in ItemCreates : calls[j].item \in TwoLevelItems

\* the chain A -> B -> C has been resolved, projected and created: C is
\* embedded in B only
C19_Witness ==
    /\ TransferDone
    /\ IsChain("A", "B", "C")
    /\ result_tasks = <<"A">>
    /\ copy_subs["B"] = <<RecordRef("C")>>
    /\ Len(tcalls) = 3

====
